---- MODULE Spec2Model ----
(***************************************************************************)
(* Model of dcyfr-ai-agents.                                               *)
(*                                                                         *)
(* Spec, SpecRepeat: the execution loop of the Agent class                 *)
(* (src/src/agent/core/agent.ts and its runtime-integrated revision,       *)
(* src/unnamed/part_001).  One run() is followed through every point at    *)
(* which it awaits: the decision provider, a tool's execute and each       *)
(* listener invocation of emitEvent.                                       *)
(*                                                                         *)
(* SpecRegistry, SpecRegistryFair: a ToolRegistry                          *)
(* (src/src/agent/tools/registry.ts) under any sequence of register,       *)
(* unregister, clear and execute.                                          *)
(*                                                                         *)
(* SpecMemory: a ShortTermMemory (src/src/agent/memory/short-term.ts)      *)
(* under any sequence of its methods.                                      *)
(***************************************************************************)
EXTENDS Integers, Sequences, FiniteSets, TLC

\* ---------------------------------------------------------------- bounds
MaxIter == 2          \* largest maxIterations a configuration is given
NumListeners == 1     \* listeners passed to the constructor
MaxRuns == 2          \* user messages a history holds before run() is no longer followed
MaxCapacity == 2      \* largest maxSize a ShortTermMemory is constructed with
MaxCount == 3         \* largest count getRecent() is called with
MaxInFlight == 2      \* persist() calls of one LongTermMemory in flight at a time
BusListeners == 2     \* listeners of the Agent whose emitEvent is followed on its own
MaxEmits == 2         \* emitEvent calls followed on their own
MaxCalls == 3         \* executeWithFallback calls made on one AgentRouter

\* ------------------------------------------------------- value universes
Undefined == "<undefined>"
Variants == {"core", "runtime"}
ToolNames == {"calculator", "nonexistent"}
ToolInputs == {"valid", "invalid"}
Thoughts == {"", "done"}
ToolOutputs == {"sunny", "<cyclic>"}
UserInputs == {"Test"}

NoAction == [tool |-> Undefined, input |-> Undefined]
Actions == [tool : ToolNames, input : ToolInputs]
Decisions ==
    [thought : Thoughts, action : {NoAction}]
        \cup [thought : {"Using tool"}, action : Actions]

NotFoundMsg == "Tool not found"
ValidationMsg == "ZodError"
ToolFailedMsg == "Tool execution failed"
DecisionFailedMsg == "Decision failed"
ListenerFailedMsg == "Listener failed"
StringifyMsg == "TypeError: cannot serialize"
NoOutputMsg == "No output generated"

VARIABLES
    variant,        \* which revision of agent.ts is running
    maxIterations,  \* config.maxIterations
    tools,          \* keys of Agent.tools
    state,          \* Agent.state; state.steps is a reference into stepArrays
    stepArrays,     \* the AgentStep[] objects allocated so far
    pc,             \* where run() is suspended, or how the last one settled
    li,             \* emitEvent: index of the listener invoked next
    step,           \* executeStep's local step
    input,          \* run()'s argument
    elapsed,        \* time since run() was entered, one unit per awaited call
    result,         \* the AgentResult built by run()
    events,         \* events handed to emitEvent by the current run
    fresh,          \* the current run started on a constructed or reset state
    stepsAtEntry,   \* number of steps recorded when the current run started
    prior           \* the counter and the position run(), or a reset() during
                    \* a run, was called at

\* a ToolRegistry (src/src/agent/tools/registry.ts)
VARIABLES
    regTools,       \* ToolRegistry.tools: the entries of the Map, in insertion order
    categories,     \* ToolRegistry.categories: category -> set of tool names
    regLast,        \* the last call of a synchronous method and how it ended
    call            \* the execute() in flight, or how the last one settled

\* a ShortTermMemory (src/src/agent/memory/short-term.ts)
VARIABLES
    maxSize,        \* ShortTermMemory.maxSize
    store,          \* ShortTermMemory.store
    insertionOrder, \* ShortTermMemory.insertionOrder
    memLast,        \* the last call and what it returned
    saveOrder,      \* the keys save() was called with, by last save, oldest first
    fill            \* the saves since construction or clear(), while all were of distinct keys

\* a LongTermMemory (src/src/agent/memory/long-term.ts) and its backing file
VARIABLES
    autoSaveInterval, \* options.autoSaveInterval
    ltStore,          \* LongTermMemory.store
    isDirty,          \* LongTermMemory.isDirty
    autoSaveTimer,    \* the interval timer is set and not cleared
    file,             \* what is at storagePath
    persists,         \* the persist() calls in flight
    loading,          \* a load() is in flight
    disposal,         \* the last dispose() and how far it got
    ltLast            \* how the last load() or persist() settled

\* an emitEvent followed on its own, with several listeners
VARIABLES
    busEvent,       \* the type of the event emitEvent is delivering, if any
    invocations,    \* the listener invocations so far, in the order they began
    emits           \* number of emitEvent calls made

\* an AgentRouter (src/src/agent/index.ts)
VARIABLES
    routerAgents,   \* keys of AgentRouter.agents
    stats,          \* AgentRouter.stats
    calls,          \* the executeWithFallback calls made, and where each one is
    completed       \* executions that returned since the last resetStats()

runVars == <<variant, maxIterations, tools, state, stepArrays, pc, li, step,
             input, elapsed, result, events, fresh, stepsAtEntry, prior>>
busVars == <<busEvent, invocations, emits>>
routerVars == <<routerAgents, stats, calls, completed>>
\* an Agent, with the AgentRouter it can be registered with
agentVars == <<runVars, busVars, routerVars>>
registryVars == <<regTools, categories, regLast, call>>
memoryVars == <<maxSize, store, insertionOrder, memLast, saveOrder, fill>>
longTermVars == <<autoSaveInterval, ltStore, isDirty, autoSaveTimer, file,
                  persists, loading, disposal, ltLast>>
vars == <<agentVars, registryVars, memoryVars, longTermVars>>

\* an Agent holds no ToolRegistry (its tools are its own Map) and keeps no
\* reference to the memory store of its options; the steps of run() are
\* followed apart from the emitEvent that is followed on its own
stores == <<registryVars, memoryVars, longTermVars, busVars, routerVars>>

\* ------------------------------------------------------------ data model
SystemMessage == [role |-> "system", name |-> Undefined, content |-> "prompt"]
UserMessage(inp) == [role |-> "user", name |-> Undefined, content |-> inp]

NewStep(it) ==
    [iteration |-> it, thought |-> "", action |-> NoAction,
     observation |-> Undefined, error |-> Undefined]

InitialState(arr) ==
    [iteration |-> 0, messages |-> <<SystemMessage>>, steps |-> arr,
     isFinished |-> FALSE, finalOutput |-> Undefined]

NoResult ==
    [output |-> Undefined, steps |-> 0, iterations |-> 0, success |-> FALSE,
     error |-> Undefined,
     metadata |-> [startTime |-> 0, endTime |-> 0, duration |-> 0]]

Steps(st) == stepArrays[st.steps]

\* JS truthiness of an optional string
Truthy(s) == s /= Undefined /\ s /= ""

HasError(s) == s.error /= Undefined
SomeError(ss) == \E i \in 1..Len(ss) : HasError(ss[i])

\* tool.inputSchema.parse(input) returns for a valid input and throws otherwise
SchemaAccepts(inp) == inp = "valid"

\* JSON.stringify throws on a cyclic structure and quotes a string
CanStringify(v) == v /= "<cyclic>"
JSONStringify(v) == "\"" \o v \o "\""

ToolMessage(name, out) ==
    [role |-> "tool", name |-> name, content |-> JSONStringify(out)]

\* an event and, in tool and input, the data of a tool_call or tool_result
EventOf(type, tool, inp) ==
    [type |-> type, thrower |-> 0, tool |-> tool, input |-> inp]
Event(type) == EventOf(type, Undefined, Undefined)

EmitPcs == {"emit_start", "emit_tool_call", "emit_tool_result",
            "emit_step_error", "emit_step", "emit_finish", "emit_run_error"}

\* no run() is in progress: none was called since construction or reset(),
\* or the promise of the last one is resolved or rejected
RestPcs == {"idle", "returned", "rejected"}

\* runs that have appended their input to the history
UserTurns(st) ==
    Cardinality({i \in 1..Len(st.messages) : st.messages[i].role = "user"})

IsFresh(st) ==
    /\ st.iteration = 0
    /\ Len(st.messages) = 1
    /\ Steps(st) = <<>>
    /\ ~st.isFinished
    /\ st.finalOutput = Undefined

\* the state of an Agent after its constructor
AgentConstructed(v, m) ==
    /\ variant = v
    /\ maxIterations = m
    /\ tools = {"calculator"}
    /\ stepArrays = << <<>> >>
    /\ state = InitialState(1)
    /\ pc = "idle"
    /\ li = 0
    /\ step = NewStep(0)
    /\ input = Undefined
    /\ elapsed = 0
    /\ result = NoResult
    /\ events = <<>>
    /\ fresh = TRUE
    /\ stepsAtEntry = 0
    /\ prior = [iteration |-> 0, pc |-> "idle", turns |-> 0]
    /\ busEvent = Undefined
    /\ invocations = <<>>
    /\ emits = 0

\* ----------------------------------------------------------- ToolRegistry
RegNames == {"calculator", "search"}
Descriptions == {"first", "second"}
\* two Tool objects may carry the same name
RegTools == [name : RegNames, description : Descriptions]
CategoryArgs == {Undefined, "", "math", "web"}

AlreadyRegisteredMsg == "Tool already registered"

\* a JS Map as the sequence of its entries, in insertion order
MapHas(m, k) == \E i \in 1..Len(m) : m[i].key = k
MapGet(m, k) == m[CHOOSE i \in 1..Len(m) : m[i].key = k].value
MapSet(m, k, v) ==
    IF MapHas(m, k)
    THEN [i \in 1..Len(m) |->
             IF m[i].key = k THEN [key |-> k, value |-> v] ELSE m[i]]
    ELSE Append(m, [key |-> k, value |-> v])
MapDelete(m, k) == SelectSeq(m, LAMBDA e : e.key /= k)
MapKeys(m) == [i \in 1..Len(m) |-> m[i].key]
MapValues(m) == [i \in 1..Len(m) |-> m[i].value]

NoCategories == [c \in {} |-> {}]
NoRegCall ==
    [op |-> "none", name |-> Undefined, description |-> Undefined,
     category |-> Undefined, threw |-> Undefined, returned |-> Undefined]
NoExecute ==
    [phase |-> "none", name |-> Undefined, input |-> Undefined,
     invoked |-> FALSE, value |-> Undefined, error |-> Undefined]

RegistryConstructed ==
    /\ regTools = <<>>
    /\ categories = NoCategories
    /\ regLast = NoRegCall
    /\ call = NoExecute

\* -------------------------------------------------------- ShortTermMemory
MemKeys == {"", "a", "b"}
MemValues == {"x", "y", Undefined}

NoEntries == [k \in {} |-> Undefined]
NoMemCall ==
    [op |-> "none", key |-> Undefined, value |-> Undefined, count |-> 0,
     size |-> 0, entries |-> <<>>]
NoFill == [distinct |-> TRUE, saves |-> <<>>]

MemoryConstructed(n) ==
    /\ maxSize = n
    /\ store = NoEntries
    /\ insertionOrder = <<>>
    /\ memLast = NoMemCall
    /\ saveOrder = <<>>
    /\ fill = NoFill

\* --------------------------------------------------------- LongTermMemory
LtKeys == {"a", "b"}
\* values save() is given: a string, and undefined
LtValues == {"x", Undefined}

\* what is at storagePath: nothing, text that JSON.parse refuses, or the
\* text of an object, kept as its properties' texts
Absent == [kind |-> "absent", data |-> [k \in {} |-> Undefined]]
Malformed == [kind |-> "malformed", data |-> [k \in {} |-> Undefined]]
JsonFile(data) == [kind |-> "json", data |-> data]

ZeroInterval == 0
SomeInterval == 100

LongTermConstructed(interval, f) ==
    /\ autoSaveInterval = interval
    /\ ltStore = NoEntries
    /\ isDirty = FALSE
    /\ autoSaveTimer = (interval > 0)
    /\ file = f
    /\ persists = {}
    /\ loading = FALSE
    /\ disposal = "none"
    /\ ltLast = "none"

\* ---------------------------------------------------- AgentRouter
AgentNames == {"test-agent", "other"}

\* runtimeExecutions / totalExecutions, as the fraction in lowest terms
RECURSIVE GCD(_, _)
GCD(a, b) == IF b = 0 THEN a ELSE GCD(b, a % b)
Ratio(n, d) == [num |-> n \div GCD(n, d), den |-> d \div GCD(n, d)]
ZeroRate == [num |-> 0, den |-> 1]

NoStats ==
    [totalExecutions |-> 0, runtimeExecutions |-> 0,
     placeholderExecutions |-> 0, runtimeAvailabilityRate |-> ZeroRate]

RouterConstructed ==
    /\ routerAgents = {}
    /\ stats = NoStats
    /\ calls = <<>>
    /\ completed = 0

Init ==
    /\ \E v \in Variants, m \in 1..MaxIter : AgentConstructed(v, m)
    /\ RegistryConstructed
    /\ RouterConstructed
    /\ MemoryConstructed(MaxCapacity)
    /\ LongTermConstructed(ZeroInterval, Absent)

cfg == <<variant, maxIterations, tools>>

\* ------------------------------------------------- fragments of run()
\* emitEvent(event): the listeners are invoked one after the other
BeginEmitOf(event, at, ev) ==
    /\ pc' = at
    /\ li' = 1
    /\ events' = Append(ev, event)

BeginEmit(type, at, ev) == BeginEmitOf(Event(type), at, ev)

MarkThrower(ev) == [ev EXCEPT ![Len(ev)].thrower = li]

\* startTime, endTime and duration, with run()'s entry as the origin of time
Metadata(end) ==
    [startTime |-> 0, endTime |-> end, duration |-> end - 0]

\* variant: success reported from isFinished alone
BuildResultIgnoresStepErrors(st) ==
    [output |-> IF Truthy(st.finalOutput) THEN st.finalOutput ELSE NoOutputMsg,
     steps |-> st.steps,
     iterations |-> st.iteration,
     success |-> st.isFinished,
     error |-> Undefined,
     metadata |-> Metadata(elapsed)]

\* variant: an unfinished run reports an error object
BuildResultCeilingError(st) ==
    [output |-> IF Truthy(st.finalOutput) THEN st.finalOutput ELSE NoOutputMsg,
     steps |-> st.steps,
     iterations |-> st.iteration,
     success |-> st.isFinished /\ ~SomeError(Steps(st)),
     error |-> IF st.isFinished THEN Undefined ELSE "Max iterations reached",
     metadata |-> Metadata(elapsed)]

BuildResult(st) ==
    [output |-> IF Truthy(st.finalOutput) THEN st.finalOutput ELSE NoOutputMsg,
     steps |-> st.steps,
     iterations |-> st.iteration,
     success |-> st.isFinished /\ ~SomeError(Steps(st)),
     error |-> Undefined,
     metadata |-> Metadata(elapsed)]

FailureResult(st, err, meta) ==
    [output |-> "", steps |-> st.steps, iterations |-> st.iteration,
     success |-> FALSE, error |-> err, metadata |-> meta]

\* variant: the while test admits one iteration too many
LoopTestOffByOne(st) ==
    IF st.iteration <= maxIterations /\ ~st.isFinished
    THEN /\ state' = [st EXCEPT !.iteration = @ + 1]
         /\ step' = NewStep(st.iteration + 1)
         /\ pc' = "decide"
         /\ UNCHANGED <<li, events, result>>
    ELSE /\ state' = st
         /\ result' = BuildResult(st)
         /\ BeginEmit("finish", "emit_finish", events)
         /\ UNCHANGED step

\* the while test of run() and what follows it without suspending
LoopTest(st) ==
    IF st.iteration < maxIterations /\ ~st.isFinished
    THEN /\ state' = [st EXCEPT !.iteration = @ + 1]
         /\ step' = NewStep(st.iteration + 1)
         /\ pc' = "decide"
         /\ UNCHANGED <<li, events, result>>
    ELSE /\ state' = st
         /\ result' = BuildResult(st)
         /\ BeginEmit("finish", "emit_finish", events)
         /\ UNCHANGED step

\* variant: the catch block emits the error without recording it on the step
StepFailsUnrecorded(s, msg, ev) ==
    /\ step' = s
    /\ BeginEmit("error", "emit_step_error", ev)
    /\ UNCHANGED <<state, stepArrays, result>>

\* catch block of executeStep
StepFails(s, msg, ev) ==
    /\ step' = [s EXCEPT !.error = msg]
    /\ BeginEmit("error", "emit_step_error", ev)
    /\ UNCHANGED <<state, stepArrays, result>>

\* variant: the step is emitted but not pushed
StepReturnsWithoutPush(s, st) ==
    /\ step' = s
    /\ state' = st
    /\ BeginEmit("step", "emit_step", events)
    /\ UNCHANGED <<stepArrays, result>>

\* executeStep returns; run() pushes the step and emits it
StepReturns(s, st) ==
    /\ step' = s
    /\ state' = st
    /\ stepArrays' = [stepArrays EXCEPT ![st.steps] = Append(@, s)]
    /\ BeginEmit("step", "emit_step", events)
    /\ UNCHANGED result

\* catch block of run()
RunFails(msg, ev) ==
    /\ result' = [NoResult EXCEPT !.error = msg, !.metadata = Metadata(elapsed)]
    /\ BeginEmit("error", "emit_run_error", ev)
    /\ UNCHANGED <<state, stepArrays, step>>

\* --------------------------------------------------------------- actions
\* entry of run() up to its first await
RunEntry(inp) ==
    /\ pc \in RestPcs
    /\ UserTurns(state) < MaxRuns
    /\ input' = inp
    /\ elapsed' = 0
    /\ fresh' = IsFresh(state)
    /\ stepsAtEntry' = Len(Steps(state))
    /\ result' = NoResult
    /\ step' = NewStep(0)
    \* only the array state.steps refers to is reachable from here on
    /\ stepArrays' = << Steps(state) >>
    /\ state' = [state EXCEPT
                    !.steps = 1,
                    !.isFinished = IF variant = "runtime" THEN FALSE ELSE @]
    /\ BeginEmit("start", "emit_start", <<>>)
    /\ UNCHANGED <<stores, cfg>>

Run(inp) ==
    /\ RunEntry(inp)
    /\ UNCHANGED prior

\* run(), with the counter and the rest position it was called at kept
RunObserved(inp) ==
    /\ RunEntry(inp)
    /\ prior' = [iteration |-> state.iteration, pc |-> pc,
                 turns |-> UserTurns(state)]

ListenerReturns ==
    /\ pc \in EmitPcs
    /\ li <= NumListeners
    /\ li' = li + 1
    /\ elapsed' = elapsed + 1
    /\ UNCHANGED <<stores, cfg, state, stepArrays, pc, step, input,
                   result, events, fresh, stepsAtEntry, prior>>

\* variant: a throw of a tool_call or tool_result listener leaves executeStep
ListenerThrowsOutOfStep ==
    /\ pc \in EmitPcs
    /\ li <= NumListeners
    /\ elapsed' = elapsed + 1
    /\ CASE pc \in {"emit_start", "emit_run_error"} ->
              /\ pc' = "rejected"
              /\ events' = MarkThrower(events)
              /\ UNCHANGED <<state, stepArrays, step, li, result>>
         [] OTHER -> RunFails(ListenerFailedMsg, MarkThrower(events))
    /\ UNCHANGED <<stores, cfg, input, fresh, stepsAtEntry, prior>>

ListenerThrows ==
    /\ pc \in EmitPcs
    /\ li <= NumListeners
    /\ elapsed' = elapsed + 1
    /\ CASE pc \in {"emit_start", "emit_run_error"} ->
              /\ pc' = "rejected"
              /\ events' = MarkThrower(events)
              /\ UNCHANGED <<state, stepArrays, step, li, result>>
         [] pc \in {"emit_tool_call", "emit_tool_result"} ->
              StepFails(step, ListenerFailedMsg, MarkThrower(events))
         [] pc \in {"emit_step_error", "emit_step", "emit_finish"} ->
              RunFails(ListenerFailedMsg, MarkThrower(events))
    /\ UNCHANGED <<stores, cfg, input, fresh, stepsAtEntry, prior>>

AfterStart ==
    /\ pc = "emit_start"
    /\ li > NumListeners
    /\ LoopTest([state EXCEPT !.messages = Append(@, UserMessage(input))])
    /\ UNCHANGED <<stores, cfg, stepArrays, input, elapsed, fresh, stepsAtEntry, prior>>

\* variant: the tool is looked up before tool_call is emitted
DecisionReturnsLooksUpFirst(d) ==
    /\ pc = "decide"
    /\ elapsed' = elapsed + 1
    /\ LET s == [step EXCEPT !.thought = d.thought, !.action = d.action]
       IN  IF d.action = NoAction
           THEN StepReturns(s, state)
           ELSE IF d.action.tool \notin tools
           THEN StepFails(s, NotFoundMsg, events)
           ELSE /\ step' = s
                /\ BeginEmitOf(EventOf("tool_call", d.action.tool, d.action.input),
                               "emit_tool_call", events)
                /\ UNCHANGED <<state, stepArrays, result>>
    /\ UNCHANGED <<stores, cfg, input, fresh, stepsAtEntry, prior>>

DecisionReturns(d) ==
    /\ pc = "decide"
    /\ elapsed' = elapsed + 1
    /\ LET s == [step EXCEPT !.thought = d.thought, !.action = d.action]
       IN  IF d.action /= NoAction
           THEN /\ step' = s
                /\ BeginEmitOf(EventOf("tool_call", d.action.tool, d.action.input),
                               "emit_tool_call", events)
                /\ UNCHANGED <<state, stepArrays, result>>
           ELSE StepReturns(s, state)
    /\ UNCHANGED <<stores, cfg, input, fresh, stepsAtEntry, prior>>

\* variant: makeDecision is called outside the try block of executeStep
DecisionThrowsFatal ==
    /\ pc = "decide"
    /\ elapsed' = elapsed + 1
    /\ RunFails(DecisionFailedMsg, events)
    /\ UNCHANGED <<stores, cfg, input, fresh, stepsAtEntry, prior>>

DecisionThrows ==
    /\ pc = "decide"
    /\ elapsed' = elapsed + 1
    /\ StepFails(step, DecisionFailedMsg, events)
    /\ UNCHANGED <<stores, cfg, input, fresh, stepsAtEntry, prior>>

AfterToolCall ==
    /\ pc = "emit_tool_call"
    /\ li > NumListeners
    /\ IF step.action.tool \notin tools
       THEN StepFails(step, NotFoundMsg, events)
       ELSE IF ~SchemaAccepts(step.action.input)
       THEN StepFails(step, ValidationMsg, events)
       ELSE /\ pc' = "execute"
            /\ UNCHANGED <<state, stepArrays, step, li, events, result>>
    /\ UNCHANGED <<stores, cfg, input, elapsed, fresh, stepsAtEntry, prior>>

\* variant: the observation is stored without a tool_result event
ToolReturnsSilently(out) ==
    /\ pc = "execute"
    /\ elapsed' = elapsed + 1
    /\ LET s == [step EXCEPT !.observation = out]
       IN  IF CanStringify(out)
           THEN StepReturns(s,
                    [state EXCEPT !.messages =
                        Append(@, ToolMessage(s.action.tool, out))])
           ELSE StepFails(s, StringifyMsg, events)
    /\ UNCHANGED <<stores, cfg, input, fresh, stepsAtEntry, prior>>

\* variant: tool_result is emitted without storing the observation
ToolReturnsDropsObservation(out) ==
    /\ pc = "execute"
    /\ elapsed' = elapsed + 1
    /\ step' = step
    /\ BeginEmitOf(EventOf("tool_result", step.action.tool, Undefined),
                   "emit_tool_result", events)
    /\ UNCHANGED <<stores, cfg, state, stepArrays, input, result, fresh, stepsAtEntry, prior>>

ToolReturns(out) ==
    /\ pc = "execute"
    /\ elapsed' = elapsed + 1
    /\ step' = [step EXCEPT !.observation = out]
    /\ BeginEmitOf(EventOf("tool_result", step.action.tool, Undefined),
                   "emit_tool_result", events)
    /\ UNCHANGED <<stores, cfg, state, stepArrays, input, result, fresh, stepsAtEntry, prior>>

\* variant: tool.execute is called outside the try block of executeStep
ToolThrowsUncaught ==
    /\ pc = "execute"
    /\ elapsed' = elapsed + 1
    /\ pc' = "rejected"
    /\ UNCHANGED <<stores, cfg, state, stepArrays, li, step, input, result, events,
                   fresh, stepsAtEntry, prior>>

ToolThrows ==
    /\ pc = "execute"
    /\ elapsed' = elapsed + 1
    /\ StepFails(step, ToolFailedMsg, events)
    /\ UNCHANGED <<stores, cfg, input, fresh, stepsAtEntry, prior>>

\* variant: the observation is not added to the messages
AfterToolResultNoMessage ==
    /\ pc = "emit_tool_result"
    /\ li > NumListeners
    /\ IF CanStringify(step.observation)
       THEN StepReturns(step, state)
       ELSE StepFails(step, StringifyMsg, events)
    /\ UNCHANGED <<stores, cfg, input, elapsed, fresh, stepsAtEntry, prior>>

AfterToolResult ==
    /\ pc = "emit_tool_result"
    /\ li > NumListeners
    /\ IF CanStringify(step.observation)
       THEN StepReturns(step,
                [state EXCEPT !.messages =
                    Append(@, ToolMessage(step.action.tool, step.observation))])
       ELSE StepFails(step, StringifyMsg, events)
    /\ UNCHANGED <<stores, cfg, input, elapsed, fresh, stepsAtEntry, prior>>

\* variant: a failed step is pushed without a step event
AfterStepErrorSkipsStepEvent ==
    /\ pc = "emit_step_error"
    /\ li > NumListeners
    /\ stepArrays' = [stepArrays EXCEPT ![state.steps] = Append(@, step)]
    /\ LoopTest(state)
    /\ UNCHANGED <<stores, cfg, input, elapsed, fresh, stepsAtEntry, prior>>

AfterStepError ==
    /\ pc = "emit_step_error"
    /\ li > NumListeners
    /\ StepReturns(step, state)
    /\ UNCHANGED <<stores, cfg, input, elapsed, fresh, stepsAtEntry, prior>>

\* variant: a step without action sets finalOutput but not isFinished
AfterStepKeepsRunning ==
    /\ pc = "emit_step"
    /\ li > NumListeners
    /\ LoopTest(IF step.action = NoAction
                THEN [state EXCEPT !.finalOutput = step.thought]
                ELSE state)
    /\ UNCHANGED <<stores, cfg, stepArrays, input, elapsed, fresh, stepsAtEntry, prior>>

AfterStep ==
    /\ pc = "emit_step"
    /\ li > NumListeners
    /\ LoopTest(IF step.action = NoAction
                THEN [state EXCEPT !.isFinished = TRUE,
                                   !.finalOutput = step.thought]
                ELSE state)
    /\ UNCHANGED <<stores, cfg, stepArrays, input, elapsed, fresh, stepsAtEntry, prior>>

AfterFinish ==
    /\ pc = "emit_finish"
    /\ li > NumListeners
    /\ pc' = "returned"
    /\ UNCHANGED <<stores, cfg, state, stepArrays, li, step, input, elapsed,
                   result, events, fresh, stepsAtEntry, prior>>

AfterRunError ==
    /\ pc = "emit_run_error"
    /\ li > NumListeners
    /\ result' = FailureResult(state, result.error, result.metadata)
    /\ pc' = "returned"
    /\ UNCHANGED <<stores, cfg, state, stepArrays, li, step, input, elapsed,
                   events, fresh, stepsAtEntry, prior>>

\* variant: reset() carries isFinished over into the new state
ResetKeepsFinished ==
    /\ pc \in RestPcs
    /\ LET held == pc = "returned" /\ result.steps = state.steps
           arr == IF held THEN Len(stepArrays) + 1 ELSE state.steps
       IN  /\ stepArrays' = IF held
                            THEN Append(stepArrays, <<>>)
                            ELSE [stepArrays EXCEPT ![arr] = <<>>]
           /\ state' = [InitialState(arr) EXCEPT
                           !.isFinished = state.isFinished]
    /\ pc' = "idle"
    /\ UNCHANGED <<stores, cfg, li, step, input, elapsed, result, events, fresh,
                   stepsAtEntry, prior>>

\* reset() replaces the state object and its steps array.  The array it
\* replaces stays allocated while the Result of the run that just returned
\* refers to it; otherwise nothing refers to it and its place is taken over.
Reset ==
    /\ pc \in RestPcs
    /\ LET held == pc = "returned" /\ result.steps = state.steps
           arr == IF held THEN Len(stepArrays) + 1 ELSE state.steps
       IN  /\ stepArrays' = IF held
                            THEN Append(stepArrays, <<>>)
                            ELSE [stepArrays EXCEPT ![arr] = <<>>]
           /\ state' = InitialState(arr)
    /\ pc' = "idle"
    /\ UNCHANGED <<stores, cfg, li, step, input, elapsed, result, events, fresh,
                   stepsAtEntry, prior>>

\* reset() called while a run() is suspended at an await, once per run, with
\* the counter and the position of the run it was called at kept.  The run
\* goes on with this.state, the object reset() has put in place.
ResetDuringRun ==
    /\ pc \notin RestPcs
    /\ prior.pc \in RestPcs
    /\ LET held == result.steps = state.steps
           arr == IF held THEN Len(stepArrays) + 1 ELSE state.steps
       IN  /\ stepArrays' = IF held
                            THEN Append(stepArrays, <<>>)
                            ELSE [stepArrays EXCEPT ![arr] = <<>>]
           /\ state' = InitialState(arr)
    /\ prior' = [iteration |-> state.iteration, pc |-> pc,
                 turns |-> UserTurns(state)]
    /\ UNCHANGED <<stores, cfg, pc, li, step, input, elapsed, result, events,
                   fresh, stepsAtEntry>>

Next ==
    \/ \E inp \in UserInputs : Run(inp)
    \/ ListenerReturns
    \/ ListenerThrows
    \/ AfterStart
    \/ \E d \in Decisions : DecisionReturns(d)
    \/ DecisionThrows
    \/ AfterToolCall
    \/ \E out \in ToolOutputs : ToolReturns(out)
    \/ ToolThrows
    \/ AfterToolResult
    \/ AfterStepError
    \/ AfterStep
    \/ AfterFinish
    \/ AfterRunError
    \/ Reset

Spec == Init /\ [][Next]_vars

\* the same Agent, each run() observed against the run before it
NextRepeat ==
    \/ \E inp \in UserInputs : RunObserved(inp)
    \/ ListenerReturns
    \/ ListenerThrows
    \/ AfterStart
    \/ \E d \in Decisions : DecisionReturns(d)
    \/ DecisionThrows
    \/ AfterToolCall
    \/ \E out \in ToolOutputs : ToolReturns(out)
    \/ ToolThrows
    \/ AfterToolResult
    \/ AfterStepError
    \/ AfterStep
    \/ AfterFinish
    \/ AfterRunError
    \/ Reset

SpecRepeat == Init /\ [][NextRepeat]_vars

\* an Agent whose listeners return, with a caller that calls run() on the
\* state a constructor or reset() left and does not await it before reset()
NextResetDuringRun ==
    \/ \E inp \in UserInputs : pc = "idle" /\ RunObserved(inp)
    \/ ListenerReturns
    \/ AfterStart
    \/ \E d \in Decisions : DecisionReturns(d)
    \/ DecisionThrows
    \/ AfterToolCall
    \/ \E out \in ToolOutputs : ToolReturns(out)
    \/ ToolThrows
    \/ AfterToolResult
    \/ AfterStepError
    \/ AfterStep
    \/ AfterFinish
    \/ Reset
    \/ ResetDuringRun

SpecResetDuringRun == Init /\ [][NextResetDuringRun]_vars

\* ------------------------------------------------ ToolRegistry: methods
LookupNames == RegNames \cup {"nonexistent"}

RegCall(op, name, description, category, threw, returned) ==
    [op |-> op, name |-> name, description |-> description,
     category |-> category, threw |-> threw, returned |-> returned]

\* categories.get(category).add(name), the set created when it is missing
AddToCategory(cats, category, name) ==
    [c \in DOMAIN cats \cup {category} |->
        IF c = category
        THEN (IF c \in DOMAIN cats THEN cats[c] ELSE {}) \cup {name}
        ELSE cats[c]]

\* variant: register() without the duplicate check
RegisterOverwrites(tool, category) ==
    /\ regTools' = MapSet(regTools, tool.name, tool)
    /\ categories' = IF Truthy(category)
                     THEN AddToCategory(categories, category, tool.name)
                     ELSE categories
    /\ regLast' = RegCall("register", tool.name, tool.description, category,
                          Undefined, Undefined)
    /\ UNCHANGED <<call, agentVars, memoryVars, longTermVars>>

\* variant: the category is updated before the duplicate check
RegisterChecksAfterCategory(tool, category) ==
    /\ categories' = IF Truthy(category)
                     THEN AddToCategory(categories, category, tool.name)
                     ELSE categories
    /\ IF MapHas(regTools, tool.name)
       THEN /\ regLast' = RegCall("register", tool.name, tool.description,
                                  category, AlreadyRegisteredMsg, Undefined)
            /\ UNCHANGED regTools
       ELSE /\ regTools' = MapSet(regTools, tool.name, tool)
            /\ regLast' = RegCall("register", tool.name, tool.description,
                                  category, Undefined, Undefined)
    /\ UNCHANGED <<call, agentVars, memoryVars, longTermVars>>

Register(tool, category) ==
    /\ IF MapHas(regTools, tool.name)
       THEN /\ regLast' = RegCall("register", tool.name, tool.description,
                                  category, AlreadyRegisteredMsg, Undefined)
            /\ UNCHANGED <<regTools, categories>>
       ELSE /\ regTools' = MapSet(regTools, tool.name, tool)
            /\ categories' = IF Truthy(category)
                             THEN AddToCategory(categories, category, tool.name)
                             ELSE categories
            /\ regLast' = RegCall("register", tool.name, tool.description,
                                  category, Undefined, Undefined)
    /\ UNCHANGED <<call, agentVars, memoryVars, longTermVars>>

\* variant: unregister() leaves the categories alone
UnregisterLeavesCategories(toolName) ==
    /\ regTools' = MapDelete(regTools, toolName)
    /\ regLast' = RegCall("unregister", toolName, Undefined, Undefined,
                          Undefined,
                          IF MapHas(regTools, toolName) THEN "true" ELSE "false")
    /\ UNCHANGED <<categories, call, agentVars, memoryVars, longTermVars>>

Unregister(toolName) ==
    /\ regTools' = MapDelete(regTools, toolName)
    /\ categories' = [c \in DOMAIN categories |-> categories[c] \ {toolName}]
    /\ regLast' = RegCall("unregister", toolName, Undefined, Undefined,
                          Undefined,
                          IF MapHas(regTools, toolName) THEN "true" ELSE "false")
    /\ UNCHANGED <<call, agentVars, memoryVars, longTermVars>>

\* variant: clear() empties the tools and keeps the categories
RegistryClearKeepsCategories ==
    /\ regTools' = <<>>
    /\ regLast' = RegCall("clear", Undefined, Undefined, Undefined,
                          Undefined, Undefined)
    /\ UNCHANGED <<categories, call, agentVars, memoryVars, longTermVars>>

RegistryClear ==
    /\ regTools' = <<>>
    /\ categories' = NoCategories
    /\ regLast' = RegCall("clear", Undefined, Undefined, Undefined,
                          Undefined, Undefined)
    /\ UNCHANGED <<call, agentVars, memoryVars, longTermVars>>

ExecuteSettled(phase, name, inp, invoked, value, error) ==
    [phase |-> phase, name |-> name, input |-> inp, invoked |-> invoked,
     value |-> value, error |-> error]

\* variant: execute() hands the input to the tool without parsing it
ExecuteCallSkipsValidation(toolName, inp) ==
    /\ call.phase /= "running"
    /\ call' = IF ~MapHas(regTools, toolName)
               THEN ExecuteSettled("rejected", toolName, inp, FALSE,
                                   Undefined, NotFoundMsg)
               ELSE ExecuteSettled("running", toolName, inp, TRUE,
                                   Undefined, Undefined)
    /\ UNCHANGED <<regTools, categories, regLast, agentVars, memoryVars, longTermVars>>

\* execute() up to its await: the lookup, the parse and the call of the tool
ExecuteCall(toolName, inp) ==
    /\ call.phase /= "running"
    /\ call' = IF ~MapHas(regTools, toolName)
               THEN ExecuteSettled("rejected", toolName, inp, FALSE,
                                   Undefined, NotFoundMsg)
               ELSE IF ~SchemaAccepts(inp)
               THEN ExecuteSettled("rejected", toolName, inp, FALSE,
                                   Undefined, ValidationMsg)
               ELSE ExecuteSettled("running", toolName, inp, TRUE,
                                   Undefined, Undefined)
    /\ UNCHANGED <<regTools, categories, regLast, agentVars, memoryVars, longTermVars>>

\* the tool's promise resolves and execute() returns its value
ExecuteReturns(out) ==
    /\ call.phase = "running"
    /\ call' = [call EXCEPT !.phase = "resolved", !.value = out]
    /\ UNCHANGED <<regTools, categories, regLast, agentVars, memoryVars, longTermVars>>

\* the tool's promise rejects and execute() rejects with the same error
ExecuteThrows ==
    /\ call.phase = "running"
    /\ call' = [call EXCEPT !.phase = "rejected", !.error = ToolFailedMsg]
    /\ UNCHANGED <<regTools, categories, regLast, agentVars, memoryVars, longTermVars>>

InitRegistry ==
    /\ AgentConstructed("core", MaxIter)
    /\ RegistryConstructed
    /\ RouterConstructed
    /\ MemoryConstructed(MaxCapacity)
    /\ LongTermConstructed(ZeroInterval, Absent)

NextRegistry ==
    \/ \E tool \in RegTools, category \in CategoryArgs : Register(tool, category)
    \/ \E toolName \in LookupNames : Unregister(toolName)
    \/ RegistryClear
    \/ \E toolName \in LookupNames, inp \in ToolInputs : ExecuteCall(toolName, inp)
    \/ \E out \in ToolOutputs : ExecuteReturns(out)
    \/ ExecuteThrows

SpecRegistry == InitRegistry /\ [][NextRegistry]_vars

\* a caller that never gives up on any registration
SpecRegistryFair ==
    /\ SpecRegistry
    /\ \A tool \in RegTools, category \in CategoryArgs :
           WF_vars(Register(tool, category))

\* what the read-only methods of the registry return
getNames == MapKeys(regTools)
getAll == MapValues(regTools)
has(toolName) == MapHas(regTools, toolName)
getCategories == DOMAIN categories
CategoriesOf(toolName) == {c \in DOMAIN categories : toolName \in categories[c]}
\* Array.from(set), in some order of the members
RECURSIVE ArrayFrom(_)
ArrayFrom(S) ==
    IF S = {} THEN <<>>
    ELSE LET x == CHOOSE y \in S : TRUE IN <<x>> \o ArrayFrom(S \ {x})
\* the tools.get(name) that are not undefined, those of the names tools has
getByCategory(category) ==
    IF category \notin DOMAIN categories
    THEN <<>>
    ELSE LET toolNames == SelectSeq(ArrayFrom(categories[category]),
                                    LAMBDA name : MapHas(regTools, name))
         IN  [i \in 1..Len(toolNames) |-> MapGet(regTools, toolNames[i])]
getStats ==
    [totalTools |-> Len(regTools),
     totalCategories |-> Cardinality(DOMAIN categories),
     toolsByCategory |-> [c \in DOMAIN categories |-> Cardinality(categories[c])]]

\* --------------------------------------------- ShortTermMemory: methods
\* Array.filter((k) => k !== key)
Without(order, key) == SelectSeq(order, LAMBDA k : k /= key)

\* Map.set, Map.delete and Map.get on the store
StoreSet(st, key, value) ==
    [k \in DOMAIN st \cup {key} |-> IF k = key THEN value ELSE st[k]]
StoreDelete(st, key) == [k \in DOMAIN st \ {key} |-> st[k]]
StoreGet(st, key) == IF key \in DOMAIN st THEN st[key] ELSE Undefined

\* the while loop of save(): shift the oldest key and, if the key is truthy,
\* delete it from the store
RECURSIVE EvictOldest(_, _)
EvictOldest(st, order) ==
    IF Len(order) > maxSize
    THEN LET oldestKey == Head(order)
         IN  EvictOldest(IF Truthy(oldestKey)
                         THEN StoreDelete(st, oldestKey)
                         ELSE st,
                         Tail(order))
    ELSE [store |-> st, insertionOrder |-> order]

\* Array.slice(start) for a start that is zero or negative
SliceFrom(order, start) ==
    LET from == IF start < 0
                THEN (IF Len(order) + start > 0 THEN Len(order) + start ELSE 0)
                ELSE start
    IN  SubSeq(order, from + 1, Len(order))

MemCall(op, key, value, count, size, entries) ==
    [op |-> op, key |-> key, value |-> value, count |-> count,
     size |-> size, entries |-> entries]

MemorySave(key, value) ==
    /\ LET order == IF key \in DOMAIN store
                    THEN Without(insertionOrder, key)
                    ELSE insertionOrder
           after == EvictOldest(StoreSet(store, key, value), Append(order, key))
       IN  /\ store' = after.store
           /\ insertionOrder' = after.insertionOrder
           /\ saveOrder' = SelectSeq(Append(Without(saveOrder, key), key),
                                     LAMBDA k : k \in DOMAIN after.store)
    /\ fill' = IF fill.distinct
                  /\ \A i \in 1..Len(fill.saves) : fill.saves[i].key /= key
               THEN [fill EXCEPT !.saves =
                        Append(@, [key |-> key, value |-> value])]
               ELSE [distinct |-> FALSE, saves |-> <<>>]
    /\ memLast' = MemCall("save", key, value, 0, 0, <<>>)
    /\ UNCHANGED <<maxSize, agentVars, registryVars, longTermVars>>

MemoryGet(key) ==
    /\ memLast' = MemCall("get", key, StoreGet(store, key), 0, 0, <<>>)
    /\ UNCHANGED <<maxSize, store, insertionOrder, saveOrder, fill,
                   agentVars, registryVars, longTermVars>>

MemoryDelete(key) ==
    /\ store' = StoreDelete(store, key)
    /\ insertionOrder' = Without(insertionOrder, key)
    /\ saveOrder' = Without(saveOrder, key)
    /\ fill' = [distinct |-> FALSE, saves |-> <<>>]
    /\ memLast' = MemCall("delete", key, Undefined, 0, 0, <<>>)
    /\ UNCHANGED <<maxSize, agentVars, registryVars, longTermVars>>

MemoryClear ==
    /\ store' = NoEntries
    /\ insertionOrder' = <<>>
    /\ saveOrder' = <<>>
    /\ fill' = NoFill
    /\ memLast' = MemCall("clear", Undefined, Undefined, 0, 0, <<>>)
    /\ UNCHANGED <<maxSize, agentVars, registryVars, longTermVars>>

\* keys(): the length of the array it returns
MemoryKeys ==
    /\ memLast' = MemCall("keys", Undefined, Undefined, 0,
                          Cardinality(DOMAIN store), <<>>)
    /\ UNCHANGED <<maxSize, store, insertionOrder, saveOrder, fill,
                   agentVars, registryVars, longTermVars>>

MemorySize ==
    /\ memLast' = MemCall("size", Undefined, Undefined, 0,
                          Cardinality(DOMAIN store), <<>>)
    /\ UNCHANGED <<maxSize, store, insertionOrder, saveOrder, fill,
                   agentVars, registryVars, longTermVars>>

GetRecent(count) ==
    /\ LET recentKeys == SliceFrom(insertionOrder, 0 - count)
           mapped == [i \in 1..Len(recentKeys) |->
                         [key |-> recentKeys[i],
                          value |-> StoreGet(store, recentKeys[i])]]
       IN  memLast' = MemCall("getRecent", Undefined, Undefined, count,
                              Cardinality(DOMAIN store),
                              SelectSeq(mapped, LAMBDA e : e.value /= Undefined))
    /\ UNCHANGED <<maxSize, store, insertionOrder, saveOrder, fill,
                   agentVars, registryVars, longTermVars>>

InitMemory ==
    /\ AgentConstructed("core", MaxIter)
    /\ RegistryConstructed
    /\ RouterConstructed
    /\ \E n \in 1..MaxCapacity : MemoryConstructed(n)
    /\ LongTermConstructed(ZeroInterval, Absent)

NextMemory ==
    \/ \E key \in MemKeys, value \in MemValues : MemorySave(key, value)
    \/ \E key \in MemKeys : MemoryGet(key)
    \/ \E key \in MemKeys : MemoryDelete(key)
    \/ MemoryClear
    \/ MemoryKeys
    \/ MemorySize
    \/ \E count \in 0..MaxCount : GetRecent(count)

SpecMemory == InitMemory /\ [][NextMemory]_vars

\* ---------------------------------------------- LongTermMemory: methods
\* JSON.stringify(Object.fromEntries(store)): a property whose value is
\* undefined is left out, a string is written in quotes
Serialize(st) ==
    [k \in {k \in DOMAIN st : st[k] /= Undefined} |-> JSONStringify(st[k])]

\* JSON.parse of one property's text
JSONParse(text) == CHOOSE v \in LtValues \ {Undefined} : JSONStringify(v) = text

\* new Map(Object.entries(JSON.parse(data)))
Deserialize(data) == [k \in DOMAIN data |-> JSONParse(data[k])]

Persisting(phase, data, by) == [phase |-> phase, data |-> data, by |-> by]

\* a user call that is not dispose(), or a load() that replaces the map: the
\* last dispose() is no longer the last thing that happened to the store
Overtake(d) == IF d = "persisting" THEN "overtaken"
               ELSE IF d = "overtaken" THEN d ELSE "none"

\* persist() up to its first await, fs.mkdir
BeginPersist(by) ==
    /\ Cardinality(persists) < MaxInFlight
    /\ Persisting("mkdir", NoEntries, by) \notin persists
    /\ persists' = persists \cup {Persisting("mkdir", NoEntries, by)}

LtSaveKeepsFlag(key, value) ==
    /\ ltStore' = StoreSet(ltStore, key, value)
    /\ isDirty' = isDirty
    /\ disposal' = Overtake(disposal)
    /\ ltLast' = "mutated"
    /\ UNCHANGED <<autoSaveInterval, autoSaveTimer, file, persists, loading,
                   agentVars, registryVars, memoryVars>>
LtSave(key, value) ==
    /\ ltStore' = StoreSet(ltStore, key, value)
    /\ isDirty' = TRUE
    /\ disposal' = Overtake(disposal)
    /\ ltLast' = "mutated"
    /\ UNCHANGED <<autoSaveInterval, autoSaveTimer, file, persists, loading,
                   agentVars, registryVars, memoryVars>>

LtDelete(key) ==
    /\ ltStore' = StoreDelete(ltStore, key)
    /\ isDirty' = TRUE
    /\ disposal' = Overtake(disposal)
    /\ ltLast' = "mutated"
    /\ UNCHANGED <<autoSaveInterval, autoSaveTimer, file, persists, loading,
                   agentVars, registryVars, memoryVars>>

\* variant: clear() also removes the file
LtClearRemovesFile ==
    /\ ltStore' = NoEntries
    /\ isDirty' = TRUE
    /\ file' = Absent
    /\ disposal' = Overtake(disposal)
    /\ ltLast' = "mutated"
    /\ UNCHANGED <<autoSaveInterval, autoSaveTimer, persists, loading,
                   agentVars, registryVars, memoryVars>>

LtClear ==
    /\ ltStore' = NoEntries
    /\ isDirty' = TRUE
    /\ disposal' = Overtake(disposal)
    /\ ltLast' = "mutated"
    /\ UNCHANGED <<autoSaveInterval, autoSaveTimer, file, persists, loading,
                   agentVars, registryVars, memoryVars>>

\* import(data): every property of data is set
LtImport(data) ==
    /\ ltStore' = [k \in DOMAIN ltStore \cup DOMAIN data |->
                      IF k \in DOMAIN data THEN data[k] ELSE ltStore[k]]
    /\ isDirty' = TRUE
    /\ disposal' = Overtake(disposal)
    /\ ltLast' = "mutated"
    /\ UNCHANGED <<autoSaveInterval, autoSaveTimer, file, persists, loading,
                   agentVars, registryVars, memoryVars>>

\* load() up to its await, fs.readFile
LoadCall ==
    /\ ~loading
    /\ loading' = TRUE
    /\ disposal' = Overtake(disposal)
    /\ UNCHANGED <<autoSaveInterval, ltStore, isDirty, autoSaveTimer, file,
                   persists, ltLast, agentVars, registryVars, memoryVars>>

\* readFile returns the text of an object: the try block runs to its end
LoadReturns ==
    /\ loading
    /\ file.kind = "json"
    /\ ltStore' = Deserialize(file.data)
    /\ isDirty' = FALSE
    /\ loading' = FALSE
    /\ ltLast' = "loaded"
    /\ disposal' = Overtake(disposal)
    /\ UNCHANGED <<autoSaveInterval, autoSaveTimer, file, persists,
                   agentVars, registryVars, memoryVars>>

LoadFallsBackKeepsStore ==
    /\ loading
    /\ ltStore' = ltStore
    /\ loading' = FALSE
    /\ ltLast' = IF file.kind = "json" THEN "unreadable" ELSE file.kind
    /\ disposal' = Overtake(disposal)
    /\ UNCHANGED <<autoSaveInterval, isDirty, autoSaveTimer, file, persists,
                   agentVars, registryVars, memoryVars>>
\* readFile rejects (no file, or another error) or JSON.parse throws: the
\* catch block
LoadFallsBack ==
    /\ loading
    /\ ltStore' = NoEntries
    /\ loading' = FALSE
    /\ ltLast' = IF file.kind = "json" THEN "unreadable" ELSE file.kind
    /\ disposal' = Overtake(disposal)
    /\ UNCHANGED <<autoSaveInterval, isDirty, autoSaveTimer, file, persists,
                   agentVars, registryVars, memoryVars>>

PersistCall ==
    /\ BeginPersist("persist")
    /\ disposal' = Overtake(disposal)
    /\ UNCHANGED <<autoSaveInterval, ltStore, isDirty, autoSaveTimer, file,
                   loading, ltLast, agentVars, registryVars, memoryVars>>

\* the callback of setInterval
TimerTick ==
    /\ autoSaveTimer
    /\ IF isDirty
       THEN BeginPersist("timer")
       ELSE UNCHANGED persists
    /\ UNCHANGED <<autoSaveInterval, ltStore, isDirty, autoSaveTimer, file,
                   loading, disposal, ltLast, agentVars, registryVars,
                   memoryVars>>

MkdirReturnsWritesEmpty(w) ==
    /\ w \in persists /\ w.phase = "mkdir"
    /\ persists' = (persists \ {w})
                       \cup {Persisting("write", Serialize(NoEntries), w.by)}
    /\ UNCHANGED <<autoSaveInterval, ltStore, isDirty, autoSaveTimer, file,
                   loading, disposal, ltLast, agentVars, registryVars,
                   memoryVars>>
\* mkdir returns: the store is serialized and fs.writeFile is called with
\* the text
MkdirReturns(w) ==
    /\ w \in persists /\ w.phase = "mkdir"
    /\ persists' = (persists \ {w})
                       \cup {Persisting("write", Serialize(ltStore), w.by)}
    /\ UNCHANGED <<autoSaveInterval, ltStore, isDirty, autoSaveTimer, file,
                   loading, disposal, ltLast, agentVars, registryVars,
                   memoryVars>>

\* writeFile returns: the file holds what was serialized
WriteReturns(w) ==
    /\ w \in persists /\ w.phase = "write"
    /\ file' = JsonFile(w.data)
    /\ isDirty' = FALSE
    /\ persists' = persists \ {w}
    /\ ltLast' = "persisted"
    /\ disposal' = IF w.by = "dispose"
                   THEN (IF disposal = "persisting" THEN "persisted" ELSE "none")
                   ELSE disposal
    /\ UNCHANGED <<autoSaveInterval, ltStore, autoSaveTimer, loading,
                   agentVars, registryVars, memoryVars>>

PersistFailsClearsFlag(w) ==
    /\ w \in persists
    /\ persists' = persists \ {w}
    /\ ltLast' = "persist failed"
    /\ disposal' = IF w.by = "dispose"
                   THEN (IF disposal = "persisting" THEN "rejected" ELSE "none")
                   ELSE disposal
    /\ isDirty' = FALSE
    /\ UNCHANGED <<autoSaveInterval, ltStore, autoSaveTimer, file,
                   loading, agentVars, registryVars, memoryVars>>
\* mkdir or writeFile rejects (the path cannot be written): the catch block
\* rethrows
PersistFails(w) ==
    /\ w \in persists
    /\ persists' = persists \ {w}
    /\ ltLast' = "persist failed"
    /\ disposal' = IF w.by = "dispose"
                   THEN (IF disposal = "persisting" THEN "rejected" ELSE "none")
                   ELSE disposal
    /\ UNCHANGED <<autoSaveInterval, ltStore, isDirty, autoSaveTimer, file,
                   loading, agentVars, registryVars, memoryVars>>

Dispose ==
    /\ disposal \notin {"persisting", "overtaken"}
    /\ autoSaveTimer' = FALSE
    /\ IF isDirty
       THEN /\ BeginPersist("dispose")
            /\ disposal' = "persisting"
       ELSE /\ disposal' = "clean"
            /\ UNCHANGED persists
    /\ UNCHANGED <<autoSaveInterval, ltStore, isDirty, file, loading, ltLast,
                   agentVars, registryVars, memoryVars>>

ImportData == {[k \in {"a"} |-> "x"], [k \in LtKeys |-> "x"]}
InitialFiles ==
    {Absent, Malformed, JsonFile(NoEntries), JsonFile([k \in {"a"} |-> "\"x\""])}

InitLongTerm ==
    /\ AgentConstructed("core", MaxIter)
    /\ RegistryConstructed
    /\ RouterConstructed
    /\ MemoryConstructed(MaxCapacity)
    /\ \E interval \in {ZeroInterval, SomeInterval}, f \in InitialFiles :
          LongTermConstructed(interval, f)

NextLongTerm ==
    \/ \E key \in LtKeys, value \in LtValues : LtSave(key, value)
    \/ \E key \in LtKeys : LtDelete(key)
    \/ LtClear
    \/ \E data \in ImportData : LtImport(data)
    \/ LoadCall
    \/ LoadReturns
    \/ LoadFallsBack
    \/ PersistCall
    \/ TimerTick
    \/ \E w \in persists : MkdirReturns(w)
    \/ \E w \in persists : WriteReturns(w)
    \/ \E w \in persists : PersistFails(w)
    \/ Dispose

SpecLongTerm == InitLongTerm /\ [][NextLongTerm]_vars

\* a store that is only written to while its timer runs: no persist(),
\* load() or dispose() is called
InitAutoSave ==
    /\ AgentConstructed("core", MaxIter)
    /\ RegistryConstructed
    /\ RouterConstructed
    /\ MemoryConstructed(MaxCapacity)
    /\ \E interval \in {ZeroInterval, SomeInterval} :
          LongTermConstructed(interval, Absent)

NextAutoSave ==
    \/ \E key \in LtKeys, value \in LtValues : LtSave(key, value)
    \/ \E key \in LtKeys : LtDelete(key)
    \/ LtClear
    \/ \E data \in ImportData : LtImport(data)
    \/ TimerTick
    \/ \E w \in persists : MkdirReturns(w)
    \/ \E w \in persists : WriteReturns(w)
    \/ \E w \in persists : PersistFails(w)

SpecAutoSave == InitAutoSave /\ [][NextAutoSave]_vars

\* ------------------------------------------------- emitEvent on its own
EventTypeNames == {"start", "step", "tool_call", "tool_result", "error", "finish"}

Invocation(n, type, listener, status) ==
    [emit |-> n, type |-> type, listener |-> listener, status |-> status]

Settle(inv, status) == [inv EXCEPT ![Len(inv)].status = status]

\* variant: the listeners are all invoked at once (Promise.all)
EmitEventFansOut(type) ==
    /\ busEvent = Undefined
    /\ emits < MaxEmits
    /\ emits' = emits + 1
    /\ busEvent' = type
    /\ invocations' = invocations \o
          [i \in 1..BusListeners |-> Invocation(emits + 1, type, i, "running")]
    /\ UNCHANGED <<runVars, routerVars, registryVars, memoryVars,
                   longTermVars>>

\* emitEvent(event) up to its first await: the first listener is invoked
EmitEvent(type) ==
    /\ busEvent = Undefined
    /\ emits < MaxEmits
    /\ emits' = emits + 1
    /\ busEvent' = type
    /\ invocations' =
          Append(invocations, Invocation(emits + 1, type, 1, "running"))
    /\ UNCHANGED <<runVars, routerVars, registryVars, memoryVars,
                   longTermVars>>

\* the awaited listener returns: the for loop invokes the next one, or ends
\* and emitEvent resolves
InvocationReturns ==
    /\ busEvent /= Undefined
    /\ LET cur == invocations[Len(invocations)]
           settled == Settle(invocations, "returned")
       IN  IF cur.listener < BusListeners
           THEN /\ invocations' =
                      Append(settled, Invocation(cur.emit, cur.type,
                                                 cur.listener + 1, "running"))
                /\ UNCHANGED busEvent
           ELSE /\ invocations' = settled
                /\ busEvent' = Undefined
    /\ UNCHANGED <<emits, runVars, routerVars, registryVars, memoryVars,
                   longTermVars>>

\* the awaited listener throws: emitEvent rejects out of its for loop
InvocationThrows ==
    /\ busEvent /= Undefined
    /\ invocations' = Settle(invocations, "threw")
    /\ busEvent' = Undefined
    /\ UNCHANGED <<emits, runVars, routerVars, registryVars, memoryVars,
                   longTermVars>>

InitEmit ==
    /\ AgentConstructed("core", MaxIter)
    /\ RegistryConstructed
    /\ RouterConstructed
    /\ MemoryConstructed(MaxCapacity)
    /\ LongTermConstructed(ZeroInterval, Absent)

NextEmit ==
    \/ \E type \in EventTypeNames : EmitEvent(type)
    \/ InvocationReturns
    \/ InvocationThrows

SpecEmit == InitEmit /\ [][NextEmit]_vars

\* ------------------------------------------------ AgentRouter: methods
\* what detectRuntimeUsage reads of an AgentResult
RouterResults == [steps : 0..2, session : BOOLEAN]

detectRuntimeUsage(res) == res.steps > 1 \/ res.session

RouterCall(agentName, phase, available, usedRuntime) ==
    [agent |-> agentName, phase |-> phase, available |-> available,
     usedRuntime |-> usedRuntime]

\* variant: the rate is computed before the counters are incremented
updateStatsStaleRate(st, usedRuntime) ==
    LET total == st.totalExecutions + 1
        runtime == st.runtimeExecutions + (IF usedRuntime THEN 1 ELSE 0)
    IN  [totalExecutions |-> total,
         runtimeExecutions |-> runtime,
         placeholderExecutions |->
             st.placeholderExecutions + (IF usedRuntime THEN 0 ELSE 1),
         runtimeAvailabilityRate |->
             IF st.totalExecutions = 0 THEN ZeroRate
             ELSE Ratio(st.runtimeExecutions, st.totalExecutions)]

updateStats(st, usedRuntime) ==
    LET total == st.totalExecutions + 1
        runtime == st.runtimeExecutions + (IF usedRuntime THEN 1 ELSE 0)
    IN  [totalExecutions |-> total,
         runtimeExecutions |-> runtime,
         placeholderExecutions |->
             st.placeholderExecutions + (IF usedRuntime THEN 0 ELSE 1),
         runtimeAvailabilityRate |-> Ratio(runtime, total)]

RegisterAgent(agentName) ==
    /\ routerAgents' = routerAgents \cup {agentName}
    /\ UNCHANGED <<stats, calls, completed, runVars, busVars, registryVars,
                   memoryVars, longTermVars>>

\* executeWithFallback up to its first await: it throws for a name that is
\* not registered, and else awaits isRuntimeAvailable()
ExecuteWithFallback(agentName) ==
    /\ Len(calls) < MaxCalls
    /\ calls' = Append(calls,
                   IF agentName \in routerAgents
                   THEN RouterCall(agentName, "detect", FALSE, FALSE)
                   ELSE RouterCall(agentName, "rejected", FALSE, FALSE))
    /\ UNCHANGED <<routerAgents, stats, completed, runVars, busVars,
                   registryVars, memoryVars, longTermVars>>

\* isRuntimeAvailable() returns; agent.run(input) is called
RuntimeDetected(i, available) ==
    /\ i \in 1..Len(calls) /\ calls[i].phase = "detect"
    /\ calls' = [calls EXCEPT ![i].phase = "run", ![i].available = available]
    /\ UNCHANGED <<routerAgents, stats, completed, runVars, busVars,
                   registryVars, memoryVars, longTermVars>>

\* agent.run returns a result: the statistics are updated and the call
\* returns
AgentRunReturns(i, res) ==
    /\ i \in 1..Len(calls) /\ calls[i].phase = "run"
    /\ LET usedRuntime == calls[i].available /\ detectRuntimeUsage(res)
       IN  /\ stats' = updateStats(stats, usedRuntime)
           /\ calls' = [calls EXCEPT ![i].phase = "returned",
                                     ![i].usedRuntime = usedRuntime]
    /\ completed' = completed + 1
    /\ UNCHANGED <<routerAgents, runVars, busVars, registryVars, memoryVars,
                   longTermVars>>

\* agent.run rejects: so does the call
AgentRunRejects(i) ==
    /\ i \in 1..Len(calls) /\ calls[i].phase = "run"
    /\ calls' = [calls EXCEPT ![i].phase = "failed"]
    /\ UNCHANGED <<routerAgents, stats, completed, runVars, busVars,
                   registryVars, memoryVars, longTermVars>>

ResetStats ==
    /\ stats' = NoStats
    /\ completed' = 0
    /\ UNCHANGED <<routerAgents, calls, runVars, busVars, registryVars,
                   memoryVars, longTermVars>>

InitRouter ==
    /\ AgentConstructed("core", MaxIter)
    /\ RegistryConstructed
    /\ RouterConstructed
    /\ MemoryConstructed(MaxCapacity)
    /\ LongTermConstructed(ZeroInterval, Absent)

NextRouter ==
    \/ \E agentName \in AgentNames : RegisterAgent(agentName)
    \/ \E agentName \in AgentNames : ExecuteWithFallback(agentName)
    \/ \E i \in 1..MaxCalls, available \in BOOLEAN : RuntimeDetected(i, available)
    \/ \E i \in 1..MaxCalls, res \in RouterResults : AgentRunReturns(i, res)
    \/ \E i \in 1..MaxCalls : AgentRunRejects(i)
    \/ ResetStats

SpecRouter == InitRouter /\ [][NextRouter]_vars

TypeOK ==
    /\ pc \in EmitPcs \cup RestPcs \cup {"decide", "execute"}
    /\ state.iteration \in 0..maxIterations

\* ------------------------------------------------ vocabulary of the claims
Done == pc = "returned"
NormalReturn == Done /\ result.error = Undefined
NoListenerThrew == \A i \in 1..Len(events) : events[i].thrower = 0
StateSteps == Steps(state)
ResultSteps == stepArrays[result.steps]
\* the steps the current run has recorded
RunSteps == SubSeq(StateSteps, stepsAtEntry + 1, Len(StateSteps))
DecisionThrew == \E i \in 1..Len(RunSteps) : RunSteps[i].error = DecisionFailedMsg
HasAction(s) == s.action /= NoAction
AllHaveAction(ss) == \A i \in 1..Len(ss) : HasAction(ss[i])
EventTypes == [i \in 1..Len(events) |-> events[i].type]
CountEvents(type) == Cardinality({i \in 1..Len(events) : events[i].type = type})
CountErrorSteps(ss) == Cardinality({i \in 1..Len(ss) : HasError(ss[i])})
Succeeded(s) == HasAction(s) /\ s.observation /= Undefined /\ ~HasError(s)

\* C1: Result.iterations never exceeds maxIterations (nor does the counter at
\* any point of a run), and a run on a fresh agent in which every step carried
\* an action, so that isFinished was never set, returns iterations equal to
\* maxIterations.
C1_IterationBound ==
    /\ state.iteration <= maxIterations
    /\ Done => result.iterations <= maxIterations
    /\ (NormalReturn /\ fresh /\ AllHaveAction(ResultSteps))
          => (~state.isFinished /\ result.iterations = maxIterations)

C1_Witness ==
    /\ NormalReturn /\ fresh /\ NoListenerThrew
    /\ maxIterations = MaxIter
    /\ AllHaveAction(ResultSteps)
    /\ result.iterations = MaxIter

\* C2: on the normal path Result.success is true exactly when isFinished is
\* set and no recorded step has an error.
C2_SuccessDefinition ==
    [](NormalReturn =>
           (result.success <=>
               (state.isFinished /\ \A i \in 1..Len(ResultSteps) :
                                        ResultSteps[i].error = Undefined)))

C2_Witness ==
    /\ NormalReturn /\ NoListenerThrew
    /\ state.isFinished
    /\ Len(ResultSteps) = 2
    /\ HasError(ResultSteps[1]) /\ ~HasError(ResultSteps[2])
    /\ ~result.success

\* C3: a step whose action fails (tool not registered, input rejected by the
\* schema, execute throws) has the error recorded on it and an error event
\* emitted; the loop does not stop on it: a run only ends after a step that
\* carried an action when the counter is at maxIterations.  A provider that
\* always names an unregistered tool gives success=false, iterations equal to
\* maxIterations and 'Tool not found' on every step.
C3_StepErrorIsolation ==
    [](/\ \A i \in 1..Len(StateSteps) :
             LET s == StateSteps[i] IN
             /\ (HasAction(s) /\ s.action.tool \notin tools
                    /\ s.error /= ListenerFailedMsg) => s.error = NotFoundMsg
             /\ (HasAction(s) /\ s.action.tool \in tools
                    /\ ~SchemaAccepts(s.action.input)
                    /\ s.error /= ListenerFailedMsg) => s.error = ValidationMsg
             /\ (HasAction(s) /\ s.observation = Undefined) => HasError(s)
       /\ pc = "emit_step_error" =>
             (HasError(step) /\ events[Len(events)].type = "error")
       /\ (NormalReturn /\ fresh) =>
             CountEvents("error") = CountErrorSteps(ResultSteps)
       /\ (NormalReturn /\ Len(ResultSteps) > 0
             /\ HasAction(ResultSteps[Len(ResultSteps)]))
             => result.iterations = maxIterations
       /\ (Done /\ fresh /\ NoListenerThrew /\ Len(ResultSteps) > 0
             /\ \A i \in 1..Len(ResultSteps) :
                   HasAction(ResultSteps[i])
                       /\ ResultSteps[i].action.tool \notin tools)
             => /\ ~result.success
                /\ result.iterations = maxIterations
                /\ Len(ResultSteps) = maxIterations
                /\ \A i \in 1..Len(ResultSteps) :
                      ResultSteps[i].error = NotFoundMsg)

C3_Witness ==
    /\ NormalReturn /\ fresh /\ NoListenerThrew
    /\ maxIterations = MaxIter
    /\ Len(ResultSteps) = MaxIter
    /\ \A i \in 1..Len(ResultSteps) : ResultSteps[i].error = NotFoundMsg
    /\ ~result.success

\* C4 (as claimed): a throw of the decision provider is surfaced as
\* Result.error and the run is marked success=false.
C4_DecisionThrowIsFatal ==
    (Done /\ DecisionThrew) => (result.error /= Undefined /\ ~result.success)

\* C4 (amended): a throw of the decision provider is caught inside
\* executeStep and recorded as the error of that step, which has no action
\* and an empty thought; it never becomes Result.error.  The run is marked
\* success=false and, when no listener throws, it ends with that step on
\* the normal path, finished and without a Result.error.
C4_DecisionThrowIsStepLocal ==
    /\ result.error /= DecisionFailedMsg
    /\ \A i \in 1..Len(StateSteps) :
          StateSteps[i].error = DecisionFailedMsg
              => (~HasAction(StateSteps[i]) /\ StateSteps[i].thought = "")
    /\ (Done /\ DecisionThrew)
          => /\ ~result.success
             /\ NoListenerThrew =>
                   /\ result.error = Undefined
                   /\ state.isFinished
                   /\ ResultSteps[Len(ResultSteps)].error = DecisionFailedMsg

C4_Witness ==
    /\ NormalReturn /\ NoListenerThrew /\ DecisionThrew
    /\ Len(ResultSteps) = 2
    /\ ResultSteps[2].error = DecisionFailedMsg
    /\ ~result.success /\ result.error = Undefined

\* C5: the promise of run() is only ever rejected by a throwing listener
\* (of the start event or of the run-level error event), never by the
\* decision provider or a tool; a resolved run carries the steps array of
\* the state, the iteration counter and consistent timing metadata.
C5_RunNeverRejects ==
    /\ pc = "rejected" =>
          /\ Len(events) > 0
          /\ events[Len(events)].thrower /= 0
          /\ events[Len(events)].type \in {"start", "error"}
    /\ Done =>
          /\ result.steps = state.steps
          /\ result.iterations = state.iteration
          /\ result.metadata.duration
                = result.metadata.endTime - result.metadata.startTime
          /\ result.metadata.duration >= 0
          /\ result.metadata.endTime <= elapsed
          /\ result.output /= Undefined

C5_Witness ==
    /\ Done /\ NoListenerThrew
    /\ Len(ResultSteps) = 2
    /\ ResultSteps[1].error = ToolFailedMsg
    /\ ResultSteps[2].error = DecisionFailedMsg
    /\ result.iterations = 2
    /\ result.metadata.duration > 0

\* event types that may follow one another inside a run
StrictOrder ==
    {<<"start", "tool_call">>, <<"start", "tool_result">>,
     <<"start", "error">>, <<"start", "step">>, <<"start", "finish">>,
     <<"tool_call", "tool_result">>, <<"tool_call", "error">>,
     <<"tool_call", "step">>,
     <<"tool_result", "step">>, <<"error", "step">>,
     <<"step", "tool_call">>, <<"step", "tool_result">>,
     <<"step", "error">>, <<"step", "step">>, <<"step", "finish">>}
ProgramOrder == StrictOrder \cup {<<"tool_result", "error">>}

FollowsOrder(order) ==
    \A i \in 1..(Len(events) - 1) :
        \/ <<events[i].type, events[i + 1].type>> \in order
        \/ events[i].thrower /= 0 /\ events[i + 1].type = "error"

OneSuccessfulCall ==
    /\ NormalReturn /\ fresh /\ NoListenerThrew
    /\ Cardinality({i \in 1..Len(ResultSteps) : HasAction(ResultSteps[i])}) = 1
    /\ \E i \in 1..Len(ResultSteps) : Succeeded(ResultSteps[i])

\* C7 (as claimed): a run with one successful tool call emits exactly
\* start, tool_call, tool_result, step, finish.
C7_FiveEvents ==
    OneSuccessfulCall =>
        EventTypes = <<"start", "tool_call", "tool_result", "step", "finish">>

\* C7 (amended): a run with one successful tool call emits exactly start,
\* tool_call, tool_result, step, finish when it ends with that iteration
\* (maxIterations = 1); when a decision without action ends it, the step
\* event of that second iteration comes before finish.
C7_EventsOfOneCall ==
    OneSuccessfulCall =>
        /\ Succeeded(ResultSteps[1])
        /\ SubSeq(EventTypes, 1, 4)
              = <<"start", "tool_call", "tool_result", "step">>
        /\ Len(ResultSteps) = 1 <=> maxIterations = 1
        /\ Len(ResultSteps) = 1 =>
              EventTypes
                = <<"start", "tool_call", "tool_result", "step", "finish">>
        /\ (Len(ResultSteps) > 1 /\ ~HasError(ResultSteps[2])) =>
              EventTypes = <<"start", "tool_call", "tool_result", "step",
                             "step", "finish">>

C7_Witness ==
    /\ OneSuccessfulCall
    /\ Len(ResultSteps) = 1
    /\ Len(events) = 5

LastStep == ResultSteps[Len(ResultSteps)]
EndsWithoutAction ==
    NormalReturn /\ Len(RunSteps) > 0 /\ ~HasAction(LastStep)

\* C8 (as claimed): a step without action ends the run, and Result.output
\* is the thought of that step, whatever the thought.
C8_OutputIsThought ==
    EndsWithoutAction => result.output = LastStep.thought

\* C8 (amended): a step without action is terminal: isFinished is set,
\* finalOutput is its thought and no iteration follows it; Result.output is
\* that thought when it is not empty and 'No output generated' when it is the
\* empty string.  A provider that at once returns a thought and no action
\* gives iterations = 1 and success = true.
C8_TerminalStep ==
    /\ \A i \in 1..(Len(RunSteps) - 1) : HasAction(RunSteps[i])
    /\ EndsWithoutAction =>
          /\ state.isFinished
          /\ state.finalOutput = LastStep.thought
          /\ result.output = IF LastStep.thought = "" THEN NoOutputMsg
                             ELSE LastStep.thought
    /\ (EndsWithoutAction /\ fresh /\ Len(ResultSteps) = 1
            /\ ~HasError(LastStep))
          => (result.iterations = 1 /\ result.success)

C8_Witness ==
    /\ EndsWithoutAction /\ fresh /\ NoListenerThrew
    /\ maxIterations > 1
    /\ Len(ResultSteps) = 1
    /\ LastStep.thought = "" /\ ~HasError(LastStep)
    /\ result.output = NoOutputMsg
    /\ result.success

\* C9: a run that stops at the iteration ceiling, every step having carried
\* an action, returns success=false and no error object.
C9_CeilingWithoutError ==
    (Done /\ NoListenerThrew /\ AllHaveAction(ResultSteps))
        => /\ ~result.success
           /\ result.error = Undefined
           /\ result.iterations = maxIterations
           /\ ~state.isFinished

C9_Witness ==
    /\ Done /\ NoListenerThrew /\ fresh
    /\ Len(ResultSteps) = MaxIter
    /\ AllHaveAction(ResultSteps)
    /\ \A i \in 1..Len(ResultSteps) : Succeeded(ResultSteps[i])
    /\ ~result.success /\ result.error = Undefined

ExecutingStep ==
    pc \in {"decide", "emit_tool_call", "execute", "emit_tool_result",
            "emit_step_error"}

\* C10 (as claimed): on an agent run from a fresh state the number of
\* recorded steps equals the iteration counter wherever a listener, a tool
\* or the decision provider is awaited, and in every returned Result.
C10_StepsEqualIteration ==
    fresh =>
        /\ pc \notin RestPcs => Len(StateSteps) = state.iteration
        /\ Done => Len(ResultSteps) = result.iterations

\* C10 (amended): on an agent run from a fresh state the number of recorded
\* steps equals the iteration counter when the start, step and finish events
\* are delivered and in every Result returned on the normal path; while a
\* step is executed (decision provider, tool, and the listeners of
\* tool_call, tool_result and the step's error) the counter is one ahead of
\* the number of recorded steps.
C10_StepsTrackIteration ==
    fresh =>
        /\ ExecutingStep => Len(StateSteps) = state.iteration - 1
        /\ pc \in {"emit_start", "emit_step", "emit_finish"}
              => Len(StateSteps) = state.iteration
        /\ NormalReturn => Len(ResultSteps) = result.iterations
        /\ (pc = "emit_run_error" \/ Done)
              => Len(StateSteps) \in {state.iteration - 1, state.iteration}

C10_Witness ==
    /\ fresh /\ pc = "execute"
    /\ state.iteration = 2
    /\ Len(StateSteps) = 1

\* C11: whatever ran before, reset() leaves the execution state at
\* iteration 0 with the system message alone in the history, no steps,
\* isFinished false and no finalOutput (the agent rests in that state until
\* run() is called), and it changes neither the registered tools, nor the
\* configuration, nor a tool registry or memory store.
C11_ResetRestoresInitialState ==
    /\ [](pc = "idle" =>
            /\ state.iteration = 0
            /\ state.messages = <<SystemMessage>>
            /\ StateSteps = <<>>
            /\ ~state.isFinished
            /\ state.finalOutput = Undefined)
    /\ [][Reset => UNCHANGED <<cfg, stores>>]_vars

C11_Witness ==
    /\ pc = "idle"
    /\ result.success /\ result.iterations = MaxIter
    /\ Len(ResultSteps) = MaxIter
    /\ result.output = "done"
    /\ IsFresh(state)

\* C12 (as claimed): a run() called after a completed run, without reset(),
\* appends its user message to the history and executes at least one more
\* iteration: once it has returned, state.iteration is greater than it was
\* when the run was called.
C12_EachRunIterates ==
    (Done /\ prior.pc = "returned") =>
        /\ UserTurns(state) = prior.turns + 1
        /\ state.iteration > prior.iteration

\* a tool of that name is among the registered tools
Registered(toolName) == \E i \in 1..Len(getAll) : getAll[i].name = toolName
StoredTool(toolName) == MapGet(regTools, toolName)

\* C13: register(tool, category) throws 'Tool already registered' exactly
\* when a tool of that name is registered, and then it changes neither the
\* stored tools nor any category, the category of the failing call included.
C13_DuplicateRegisterChangesNothing ==
    [][\A tool \in RegTools, category \in CategoryArgs :
          Register(tool, category) =>
             /\ regLast'.threw
                   = (IF Registered(tool.name) THEN AlreadyRegisteredMsg
                      ELSE Undefined)
             /\ Registered(tool.name) =>
                   /\ regTools' = regTools
                   /\ categories' = categories]_vars

C13_Witness ==
    /\ regLast.op = "register" /\ regLast.threw = AlreadyRegisteredMsg
    /\ regLast.name = "calculator" /\ regLast.category = "web"
    /\ "web" \notin getCategories
    /\ CategoriesOf("calculator") = {"math"}
    /\ StoredTool("calculator").description /= regLast.description

\* C14: unregister(name) removes the tool and removes its name from every
\* category, touching no other tool and no other membership; it returns
\* true when the name was registered and false, with the registered tools
\* unchanged, when it was not.
C14_UnregisterRemoves ==
    [][\A toolName \in LookupNames :
          Unregister(toolName) =>
             /\ ~Registered(toolName)'
             /\ CategoriesOf(toolName)' = {}
             /\ regLast'.returned
                   = (IF Registered(toolName) THEN "true" ELSE "false")
             /\ ~Registered(toolName) => regTools' = regTools
             /\ getCategories' = getCategories
             /\ \A other \in RegNames \ {toolName} :
                   /\ Registered(other)' = Registered(other)
                   /\ Registered(other)
                         => StoredTool(other)' = StoredTool(other)
                   /\ CategoriesOf(other)' = CategoriesOf(other)]_vars

C14_Witness ==
    /\ regLast.op = "unregister" /\ regLast.returned = "true"
    /\ regLast.name = "calculator"
    /\ ~Registered("calculator")
    /\ "math" \in getCategories /\ categories["math"] = {"search"}
    /\ Registered("search")

InSeveralCategories(toolName) == Cardinality(CategoriesOf(toolName)) > 1

\* C15 (as claimed): tool names are unique and categories are not
\* exclusive: a registered tool gets to belong to several categories at the
\* same time.
C15_SeveralCategories ==
    /\ [](\A i, j \in 1..Len(getAll) : getAll[i].name = getAll[j].name => i = j)
    /\ <>(\E toolName \in RegNames :
             Registered(toolName) /\ InSeveralCategories(toolName))

\* C15 (amended): tool names are unique within one ToolRegistry, each tool
\* stored under its own name; a registered tool belongs to at most one
\* category or to none, different tools may share a category, and a name
\* that is not registered belongs to none.
C15_UniqueNamesOneCategory ==
    /\ \A i, j \in 1..Len(getAll) : getAll[i].name = getAll[j].name => i = j
    /\ \A i \in 1..Len(regTools) : regTools[i].key = regTools[i].value.name
    /\ \A toolName \in LookupNames :
          /\ ~InSeveralCategories(toolName)
          /\ ~Registered(toolName) => CategoriesOf(toolName) = {}

C15_Witness ==
    /\ Len(getAll) = 2
    /\ CategoriesOf("calculator") = {"math"}
    /\ CategoriesOf("search") = {}
    /\ regLast.op = "register" /\ regLast.threw = AlreadyRegisteredMsg
    /\ regLast.name = "calculator" /\ regLast.category = "web"

\* C16: execute(name, input) rejects with 'Tool not found' for a name that
\* is not registered and with the schema's error for an input the schema
\* refuses, in both cases without invoking the tool's execute; otherwise it
\* invokes the tool and returns its output or rejects with its failure.  No
\* step of it changes the registry.
C16_ExecuteValidatesFirst ==
    /\ [][\A toolName \in LookupNames, inp \in ToolInputs :
             ExecuteCall(toolName, inp) =>
                /\ ~Registered(toolName) =>
                      /\ call'.phase = "rejected" /\ call'.error = NotFoundMsg
                      /\ ~call'.invoked
                /\ (Registered(toolName) /\ ~SchemaAccepts(inp)) =>
                      /\ call'.phase = "rejected" /\ call'.error = ValidationMsg
                      /\ ~call'.invoked
                /\ (Registered(toolName) /\ SchemaAccepts(inp)) =>
                      /\ call'.phase = "running" /\ call'.invoked]_vars
    /\ [][call' /= call => (regTools' = regTools /\ categories' = categories)]_vars
    /\ [](call.phase = "resolved" =>
             (call.invoked /\ call.value \in ToolOutputs
                 /\ call.error = Undefined))
    /\ [](call.phase = "rejected" =>
             /\ call.value = Undefined
             /\ call.error \in {NotFoundMsg, ValidationMsg, ToolFailedMsg}
             /\ call.invoked <=> call.error = ToolFailedMsg)

C16_Witness ==
    /\ call.phase = "rejected" /\ call.error = ValidationMsg
    /\ ~call.invoked
    /\ call.name = "calculator" /\ Registered("calculator")
    /\ call.input = "invalid"

size == Cardinality(DOMAIN store)
Position(order, key) == CHOOSE i \in 1..Len(order) : order[i] = key
Min(a, b) == IF a < b THEN a ELSE b

\* C17 (as claimed): after N+1 distinct keys have been saved, in that order,
\* into a ShortTermMemory of capacity N, get of the first is undefined (the
\* key is gone) and every other key returns the value saved under it.
C17_EvictsExactlyFirst ==
    (fill.distinct /\ Len(fill.saves) = maxSize + 1) =>
        /\ fill.saves[1].key \notin DOMAIN store
        /\ StoreGet(store, fill.saves[1].key) = Undefined
        /\ \A i \in 2..Len(fill.saves) :
              /\ fill.saves[i].key \in DOMAIN store
              /\ StoreGet(store, fill.saves[i].key) = fill.saves[i].value

\* C18 (as claimed): whatever was saved, deleted or cleared, with any keys,
\* the store holds at most N entries: size() and the length of keys() are at
\* most the capacity.
C18_SizeWithinCapacity ==
    /\ size <= maxSize
    /\ memLast.op \in {"size", "keys"} => memLast.size <= maxSize

\* C19 (as claimed): entries leave the store in the order of their last
\* save: the keys a save evicts were all saved, for the last time, before
\* every key the store keeps (a key saved again counts from that save), and
\* get changes neither the entries nor the order.
C19_EvictionByLastSave ==
    /\ [][\A key \in MemKeys, value \in MemValues :
             MemorySave(key, value) =>
                LET bySave == Append(Without(saveOrder, key), key)
                    evicted == (DOMAIN store \cup {key}) \ DOMAIN store'
                IN  \A gone \in evicted, kept \in DOMAIN store' :
                       Position(bySave, gone) < Position(bySave, kept)]_vars
    /\ [][\A key \in MemKeys :
             MemoryGet(key) => UNCHANGED <<store, insertionOrder>>]_vars

\* C20 (as claimed): while no stored value is undefined, getRecent(count)
\* returns min(count, size()) entries for every count >= 0: the entries
\* saved last, the oldest of them first, each with its value.
C20_GetRecentCount ==
    (memLast.op = "getRecent"
        /\ \A k \in DOMAIN store : store[k] /= Undefined) =>
        LET n == Min(memLast.count, size)
            recent == SubSeq(saveOrder, Len(saveOrder) - n + 1, Len(saveOrder))
        IN  /\ Len(memLast.entries) = n
            /\ memLast.entries
                  = [i \in 1..n |->
                        [key |-> recent[i], value |-> store[recent[i]]]]

\* ------------------------------------------ vocabulary of C21..C27
\* an object JSON can carry: no property is undefined
Representable(st) == \A k \in DOMAIN st : st[k] /= Undefined
\* export() of a fresh LongTermMemory on the same path after its load()
\* read the file
FreshLoad(f) == IF f.kind = "json" THEN Deserialize(f.data) ELSE NoEntries
LoadOutcomes == {"loaded", "absent", "malformed", "unreadable"}

\* C21: a freshly constructed LongTermMemory is not dirty; save, delete,
\* clear and import each leave it dirty; a persist() that succeeds leaves it
\* not dirty.
C21_DirtyFlag ==
    /\ ltLast = "none" => ~isDirty
    /\ ltLast = "mutated" => isDirty
    /\ ltLast = "persisted" => ~isDirty

C21_Witness ==
    /\ ltLast = "persisted" /\ ~isDirty
    /\ file.kind = "json" /\ DOMAIN file.data = LtKeys

\* C22: after load() returns the store is not dirty, whether the file was
\* read, was absent or was malformed.
C22_LoadClearsDirty == ltLast \in LoadOutcomes => ~isDirty

\* C23: load() on an absent or malformed file resolves, and the map is empty
\* afterwards whatever it held.
C23_LoadFallsBackToEmpty ==
    /\ (loading /\ file.kind /= "json") => ENABLED LoadFallsBack
    /\ ltLast \in {"absent", "malformed", "unreadable"} => ltStore = NoEntries

C23_Witness ==
    /\ ltLast = "malformed" /\ ~loading
    /\ isDirty /\ ltStore = NoEntries

C25_PersistFailureKeepsState ==
    [][\A w \in persists :
          PersistFails(w)
             => /\ ltLast' = "persist failed"
                /\ ltStore' = ltStore /\ isDirty' = isDirty
                /\ file' = file]_vars

C25_Witness ==
    /\ ltLast = "persist failed" /\ persists = {}
    /\ isDirty /\ ltStore /= NoEntries

\* what a JSON round trip makes of a map
Image(st) == Deserialize(Serialize(st))
\* a persist() the timer has started and that has not got past mkdir
TimerStarted == Persisting("mkdir", NoEntries, "timer") \in persists

\* C26: once dispose() was called the timer is stopped, and when a dispose()
\* of a dirty store has resolved (nothing was called since) a fresh instance
\* loading the path sees the data of the map.
C26_DisposeFlushes ==
    /\ disposal /= "none" => ~autoSaveTimer
    /\ disposal = "persisted" => FreshLoad(file) = Image(ltStore)

\* the parts of C26 that hold: after dispose() no persist is started by the
\* timer, and dispose() of a clean store starts no persist and writes nothing
C26_TimerStoppedCleanWritesNothing ==
    [][/\ ~autoSaveTimer => /\ ~autoSaveTimer'
                            /\ TimerStarted' => TimerStarted
       /\ Dispose => ~autoSaveTimer'
       /\ (Dispose /\ ~isDirty) => (persists' = persists /\ file' = file)]_vars

\* C27: without an interval nothing is ever persisted in the background;
\* with one, a store that is not dirty and has no persist under way has
\* reached the file, so that no later tick is needed for it.
C27_AutoSaveReachesStore ==
    /\ autoSaveInterval = ZeroInterval => (persists = {} /\ file = Absent)
    /\ (autoSaveTimer /\ ~isDirty /\ persists = {})
          => FreshLoad(file) = Image(ltStore)

\* the part of C27 that holds: a tick starts a persist only for a dirty store
C27_TickPersistsOnlyDirty ==
    [][(TimerTick /\ ~isDirty) => UNCHANGED longTermVars]_vars

\* ------------------------------------------ vocabulary of C29, C30
IsToolCall(e) == e.type = "tool_call"
IsToolMessage(m) == m.role = "tool"
\* the tool_call events of the current run, and its recorded steps that
\* carry an action
ToolCalls == SelectSeq(events, IsToolCall)
ActionSteps == SelectSeq(RunSteps, HasAction)
\* reset() has not discarded the steps of the run the events belong to
StepsKept == pc /= "idle"
\* executeStep is between its tool_call and its return or catch block
InToolCall == pc \in {"emit_tool_call", "execute", "emit_tool_result"}
Rejects(e) == e.tool \notin tools \/ ~SchemaAccepts(e.input)
ToolMessages == SelectSeq(state.messages, IsToolMessage)
SucceededSteps == SelectSeq(StateSteps, Succeeded)
\* tool.execute returned for the step
Executed(s) == HasAction(s) /\ s.observation /= Undefined
ExecutedSteps == SelectSeq(StateSteps, Executed)

\* C29: every decision with an action has its tool_call event, emitted before
\* the lookup and the validation: a tool_call for an unregistered tool or an
\* invalid input is followed by error and not by tool_result, and a
\* tool_result directly follows the tool_call of the same tool.
C29_ToolCallFirst ==
    [](/\ StepsKept =>
             /\ Len(ActionSteps) <= Len(ToolCalls)
             /\ Len(ToolCalls) <= Len(ActionSteps) + 1
             /\ \A k \in 1..Len(ActionSteps) :
                   /\ ToolCalls[k].tool = ActionSteps[k].action.tool
                   /\ ToolCalls[k].input = ActionSteps[k].action.input
       /\ InToolCall =>
             /\ Len(ToolCalls) = Len(ActionSteps) + 1
             /\ ToolCalls[Len(ToolCalls)].tool = step.action.tool
       /\ \A i \in 1..Len(events) :
             /\ (IsToolCall(events[i]) /\ Rejects(events[i])) =>
                   IF i = Len(events)
                   THEN pc = "emit_tool_call"
                   ELSE events[i + 1].type = "error"
             /\ events[i].type = "tool_result" =>
                   /\ i > 1
                   /\ IsToolCall(events[i - 1])
                   /\ events[i - 1].tool = events[i].tool
                   /\ ~Rejects(events[i - 1]))

C29_Witness ==
    /\ Done
    /\ \E i, j \in 1..Len(events) :
          /\ IsToolCall(events[i]) /\ events[i].tool \notin tools
          /\ events[i + 1].type = "error"
          /\ events[j].type = "tool_result"

\* C30: the tool messages of the history are, in order, those of the
\* recorded steps that carry an action, an observation and no error: a step
\* with an error adds no message.
C30_ToolMessagesOfSucceededSteps ==
    /\ Len(ToolMessages) = Len(SucceededSteps)
    /\ \A k \in 1..Len(ToolMessages) :
          ToolMessages[k]
             = ToolMessage(SucceededSteps[k].action.tool,
                           SucceededSteps[k].observation)

C30_Witness ==
    /\ Done
    /\ Len(ToolMessages) = 1
    /\ Len(ExecutedSteps) = 2

\* C30 as stated: one tool message for every step whose tool executed
C30_ToolMessagesOfExecutedSteps == Len(ToolMessages) = Len(ExecutedSteps)

\* ------------------------------------------ vocabulary of C28
\* the invocations of the n-th emitEvent, in the order they began
InvocationsOf(n) == SelectSeq(invocations, LAMBDA v : v.emit = n)
EmitSettled(n) == n < emits \/ (n = emits /\ busEvent = Undefined)
Threw(n) == \E i \in 1..Len(invocations) :
                invocations[i].emit = n /\ invocations[i].status = "threw"

\* C28: the listeners are invoked in registration order, one at a time: only
\* the invocation begun last can be running, the invocations of an event are
\* listener 1, 2, ... without a gap, all before those of the next event, and
\* an event whose listeners all returned was delivered to every listener.
C28_SequentialDelivery ==
    /\ \A i \in 1..Len(invocations) :
          /\ invocations[i].status = "running" =>
                (i = Len(invocations) /\ busEvent = invocations[i].type)
          /\ i < Len(invocations) =>
                \/ /\ invocations[i].status = "returned"
                   /\ invocations[i + 1].emit = invocations[i].emit
                   /\ invocations[i + 1].listener = invocations[i].listener + 1
                \/ /\ invocations[i].status = "threw" \/
                         invocations[i].listener = BusListeners
                   /\ invocations[i + 1].emit = invocations[i].emit + 1
                   /\ invocations[i + 1].listener = 1
    /\ \A n \in 1..emits :
          (EmitSettled(n) /\ ~Threw(n))
             => /\ Len(InvocationsOf(n)) = BusListeners
                /\ \A k \in 1..BusListeners : InvocationsOf(n)[k].listener = k

C28_Witness ==
    /\ emits = MaxEmits /\ busEvent = Undefined
    /\ Len(InvocationsOf(1)) = BusListeners /\ ~Threw(1)
    /\ Threw(MaxEmits) /\ Len(InvocationsOf(MaxEmits)) = 1

\* C28 as stated: every event emitted was delivered to every listener
C28_DeliveredToEveryListener ==
    \A n \in 1..emits :
        EmitSettled(n) => Len(InvocationsOf(n)) = BusListeners

\* ------------------------------------------ vocabulary of C31, C33
\* save, delete, clear or import is called
Mutates ==
    \/ \E key \in LtKeys, value \in LtValues : LtSave(key, value)
    \/ \E key \in LtKeys : LtDelete(key)
    \/ LtClear
    \/ \E data \in ImportData : LtImport(data)
\* the writeFile of a persist() returns
Writes == \E w \in persists : WriteReturns(w)

\* C31: save, delete, clear and import change the map and the dirty flag and
\* nothing else of the store; the file changes only when the writeFile of a
\* persist() returns.
C31_OnlyPersistWrites ==
    [][/\ Mutates => /\ file' = file /\ persists' = persists
                     /\ autoSaveTimer' = autoSaveTimer
                     /\ loading' = loading
                     /\ isDirty'
       /\ file' /= file => Writes]_vars

C31_Witness ==
    /\ ltLast = "mutated" /\ isDirty
    /\ ltStore /= NoEntries
    /\ file = Absent /\ persists = {}

\* C33: when the writeFile of a persist() returns, the file holds the map or
\* the store is still dirty: a change made while the persist was writing is
\* in the file or remains flagged.
C33_ChangeWrittenOrFlagged ==
    [][Writes => (FreshLoad(file') = Image(ltStore') \/ isDirty')]_vars

\* ------------------------------------------ vocabulary of C32
Rejected(c) == c.phase = "rejected"

\* C32: the statistics add up, count the executions that returned since the
\* last resetStats(), carry their ratio as the rate (0 without executions),
\* and a call for a name that is not registered rejects without changing
\* them.
C32_StatsConsistent ==
    /\ [](/\ stats.totalExecutions
               = stats.runtimeExecutions + stats.placeholderExecutions
          /\ stats.totalExecutions = completed
          /\ stats.runtimeAvailabilityRate
               = IF stats.totalExecutions = 0 THEN ZeroRate
                 ELSE Ratio(stats.runtimeExecutions, stats.totalExecutions))
    /\ [][\A agentName \in AgentNames \ routerAgents :
             ExecuteWithFallback(agentName)
                => /\ stats' = stats
                   /\ Rejected(calls'[Len(calls')])]_vars

C32_Witness ==
    /\ stats.totalExecutions = 1
    /\ Len(calls) = MaxCalls
    /\ \E i, j, k \in 1..Len(calls) :
          /\ i /= j
          /\ calls[i].phase = "returned" /\ calls[j].phase = "returned"
          /\ Rejected(calls[k])

\* C34: the steps list of the Result an earlier run() returned (the array
\* state.steps still refers to when run() is called again without reset())
\* keeps the length it had when the later run() was called.
C34_ResultStepsStable ==
    (pc /= "idle" /\ prior.pc = "returned") => Len(StateSteps) = stepsAtEntry

\* ------------------------------------------ vocabulary of C35
\* the current run ended with a step that carries no action
FinishedInRun ==
    Len(RunSteps) > 0 /\ ~HasAction(RunSteps[Len(RunSteps)])
\* the thought of that step, as run() reports it
OutputOfRun ==
    IF FinishedInRun /\ Truthy(RunSteps[Len(RunSteps)].thought)
    THEN RunSteps[Len(RunSteps)].thought
    ELSE NoOutputMsg

\* C35: the Result of a run() called after an earlier run returned, without
\* reset(), reports success and output from the steps of that run alone.
C35_ResultOfThisRun ==
    (NormalReturn /\ prior.pc = "returned") =>
        /\ result.success <=> (FinishedInRun /\ ~SomeError(RunSteps))
        /\ result.output = OutputOfRun

\* ------------------------------------------ vocabulary of C36
InToolEvent == pc \in {"emit_tool_call", "emit_tool_result"}
\* the events of the tool call a listener threw at
ThrownToolEvents ==
    {i \in 1..Len(events) :
        events[i].thrower /= 0 /\ events[i].type \in {"tool_call", "tool_result"}}
\* no listener threw at an event other than tool_call and tool_result
ThrewInToolEventsOnly ==
    \A i \in 1..Len(events) : events[i].thrower /= 0 => i \in ThrownToolEvents

HasObservation(s) == s.observation /= Undefined
\* the positions of the step events of the run, in order
StepEvents ==
    SelectSeq([i \in 1..Len(events) |-> i],
              LAMBDA i : events[i].type = "step")
\* each recorded step has an observation exactly when a tool_result event was
\* emitted for it, between the step event before its own and its own, and an
\* error exactly when an error event was
ObservationAndErrorFollowEvents ==
    LET at == StepEvents
        steps == RunSteps
        EmittedFor(k, type) ==
            \E i \in (IF k = 1 THEN 1 ELSE at[k - 1] + 1)..(at[k] - 1) :
                events[i].type = type
    IN  /\ Len(at) = Len(steps)
        /\ \A k \in 1..Len(steps) :
              /\ HasObservation(steps[k]) <=> EmittedFor(k, "tool_result")
              /\ HasError(steps[k]) <=> EmittedFor(k, "error")

C38_NoEmptyCategory ==
    /\ \A c \in getCategories : Len(getByCategory(c)) > 0
    /\ getStats.totalCategories
         = Cardinality({c \in CategoryArgs : Len(getByCategory(c)) > 0})

\* ------------------------------------------ vocabulary of C39
NamesOf(toolSeq) == {toolSeq[i].name : i \in 1..Len(toolSeq)}

\* C39: each name in a category's set is a registered tool: getByCategory(c)
\* returns one tool per member of c, the tool of that name, and
\* getStats().toolsByCategory[c] is the length of getByCategory(c); the
\* statistics count the registered tools and the categories.
C39_CategoryMembersRegistered ==
    /\ \A c \in getCategories :
          /\ \A toolName \in categories[c] : Registered(toolName)
          /\ Len(getByCategory(c)) = Cardinality(categories[c])
          /\ NamesOf(getByCategory(c)) = categories[c]
          /\ getStats.toolsByCategory[c] = Len(getByCategory(c))
    /\ DOMAIN getStats.toolsByCategory = getCategories
    /\ getStats.totalTools = Len(getAll)
    /\ \A c \in CategoryArgs \ getCategories : getByCategory(c) = <<>>

C39_Witness ==
    /\ regLast.op = "unregister" /\ regLast.returned = "true"
    /\ getCategories = {"math", "web"}
    /\ categories["math"] = {"search"} /\ categories["web"] = {}
    /\ Len(getByCategory("math")) = 1 /\ getStats.toolsByCategory["web"] = 0
    /\ getStats.totalTools = 1

\* ------------------------------------------ vocabulary of C40
\* reset() was called during a run and run() has not been called since
ResetSinceLastRun == pc = "idle" \/ prior.pc \notin RestPcs

\* C40: from the return of reset() until run() is called again the state
\* is at iteration 0 with no steps and the system message alone, also when
\* reset() was called while a run() was in progress.
C40_ResetStateStays ==
    ResetSinceLastRun =>
        /\ state.iteration = 0
        /\ StateSteps = <<>>
        /\ state.messages = <<SystemMessage>>

====
